---- MODULE Spec2Model ----
(***************************************************************************)
(* The question-answering workflow of src/src/graph/workflow.py: one       *)
(* request threaded through the nodes of the StateGraph, started as        *)
(* src/src/run.py starts it.                                               *)
(*                                                                         *)
(* Python values are modelled as strings.  A list of rows is written with  *)
(* the prefix "<list>" so that the list [] and the text "[]" that str()    *)
(* makes of it are different values, as they are in Python.                *)
(***************************************************************************)
EXTENDS Integers, Sequences, FiniteSets, TLC

VARIABLES
    state,          \* the session (AgentState) of the request
    pc,             \* the node the graph runs next, or how the request ended
    steps,          \* node executions so far (langgraph counts them)
    keeps_inplace,  \* whether the graph runtime keeps item assignments made on
                    \* the dict it hands to a node or to a routing function
    config,         \* the config of app.ainvoke: its recursion_limit
    ran,            \* history: executions of each node
    called,         \* history: the adapters and chains the last step called,
                    \* each with the question it was given
    returned,       \* history: what the attempts of the retry loop in progress
                    \* (or, between loops, of the loop just left) returned
    entry_question, \* history: the working question when that loop started
    found           \* history: the adapters that returned evidence so far

vars == <<state, pc, steps, keeps_inplace, config, ran, called, returned,
          entry_question, found>>

----------------------------------------------------------------------------
(* Bounds of the model *)

\* max_iterations of the initial state ranges over 1..MaxMaxIterations
MaxMaxIterations ==
    3

\* the smallest recursion_limit a request is started with
MinRecursionLimit ==
    7

(* Program constants *)

\* run.py: "max_iterations": 3
DefaultMaxIterations ==
    3

\* run.py: config = {"recursion_limit": 30}
recursion_limit ==
    30

----------------------------------------------------------------------------
(* Python values *)

\* a key the session does not hold
Absent ==
    "<absent>"

None ==
    "<None>"

PyTrue ==
    "True"

PyFalse ==
    "False"

EmptyRows ==
    "<list>[]"

Rows1 ==
    "<list>[{'n': 1}]"

Rows2 ==
    "<list>[{'n': 2}]"

\* bool(v), with a missing key read through state.get(key) as None
Truthy(v) ==
    v \notin {Absent, None, "", EmptyRows, PyFalse}

\* v == True / False as a Python value
PyBool(b) ==
    IF b THEN PyTrue ELSE PyFalse

\* str(v)
Str(v) ==
    CASE v = None -> "None"
      [] v = EmptyRows -> "[]"
      [] v = Rows1 -> "[{'n': 1}]"
      [] v = Rows2 -> "[{'n': 2}]"
      [] OTHER -> v

----------------------------------------------------------------------------
(* Fixed texts of the workflow *)

Refusal ==
    "Sorry, I can only answer questions related to cybersecurity, such as log analysis, attack techniques, malware, and threat actors."

NotFound ==
    "Sorry, after several attempts, I could not find any relevant information."

NotApplicable ==
    "Not applicable for this query."

NoData ==
    "No data was provided from this source."

VectorError ==
    "Error during vector search: e"

CypherFailedQuery ==
    "Failed to generate Cypher query due to an error."

CypherErrorText ==
    "Query Cypher failed: e"

McpAgentError ==
    "Error during MCP agent execution: e"

\* "Error during vector search" in context
HasVectorErrorMarker(context) ==
    context = VectorError

END ==
    "END"

\* an exception left a node: app.ainvoke raises, main prints no answer
RAISED ==
    "RAISED"

\* GraphRecursionError: the step budget ran out before END
RECURSION_ERROR ==
    "RECURSION_ERROR"

----------------------------------------------------------------------------
(* What the collaborators can answer.  Raises stands for a call that throws. *)

Raises ==
    "<raises>"

OriginalQuestion ==
    "q0"

\* rephrased_question of a reflection chain
Rephrasings ==
    {"q0", "q1"}

\* what the graph database holds for a question: the text of
\* structured_retriever and the joined pages of the similarity search
VectorRetrievals ==
    {<<"", "">>, <<"s1", "">>, <<"s1", "u1">>}

\* final_data of query_vector_search: both parts set in its fixed frame
query_vector_search(structured_data, unstructured_data) ==
    "Structured data: " \o structured_data
        \o " Unstructured data: " \o unstructured_data

\* final_data when nothing was retrieved
VectorNothing ==
    query_vector_search("", "")

\* query_vector_search(question), or the exception of one of its lookups
VectorResults ==
    {query_vector_search(r[1], r[2]) : r \in VectorRetrievals} \cup {Raises}

\* query_cypher(question)["context"]
CypherResults ==
    {EmptyRows, Rows1, Rows2, Raises}

\* run_mcp_agent(question), which catches its own exceptions
McpResults ==
    {"", "k1", McpAgentError}

GuardrailsDecisions ==
    {"relevant", "irrelevant", Raises}

RouterDatasources ==
    {"log_analysis", "cyber_knowledge", Raises}

ReviewDecisions ==
    {"sufficient", "insufficient", Raises}

LogAnalysisDecisions ==
    {"cskg_required", "cskg_not_required", Raises}

GeneratedQuestions ==
    {"", "g1"}

SynthesisResults ==
    {"report", Raises}

Nodes ==
    {"guardrails", "log_or_cyber_router", "vector_agent", "review_vector_answer",
     "vector_reflection", "cypher_agent", "review_cypher_answer",
     "cypher_reflection", "log_analysis_agent", "mcp_rdf_agent", "synthesizer"}

Chains ==
    {"guardrails_chain", "router_chain", "review_chain_vector",
     "review_chain_cypher", "vector_reflection_chain", "reflection_chain",
     "log_analysis_chain", "synthesis_chain", "query_vector_search",
     "query_cypher", "run_mcp_agent"}

----------------------------------------------------------------------------
(* The initial state of run.py, for every positive max_iterations *)

initial_state(max_iterations) ==
    [ question |-> OriginalQuestion,
      original_question |-> OriginalQuestion,
      cypher_iteration_count |-> 1,
      vector_iteration_count |-> 1,
      max_iterations |-> max_iterations,
      is_relevant |-> Absent,
      is_log_question |-> Absent,
      log_vector_context |-> Absent,
      log_cypher_context |-> Absent,
      latest_vector_context |-> Absent,
      latest_cypher_context |-> Absent,
      vector_answer_sufficient |-> Absent,
      cypher_answer_sufficient |-> Absent,
      is_cskg_required |-> Absent,
      generated_question_for_rdf |-> Absent,
      mcp_rdf_context |-> Absent,
      answer |-> Absent,
      cypher_query |-> Absent,
      error |-> Absent ]

NoHistory ==
    [ last |-> Absent, previous |-> Absent, best |-> Absent ]

NoCalls ==
    [c \in Chains |-> Absent]

Init ==
    /\ \E m \in 1..MaxMaxIterations : state = initial_state(m)
    /\ pc = "guardrails"
    /\ steps = 0
    /\ keeps_inplace \in BOOLEAN
    /\ config \in [recursion_limit : {MinRecursionLimit, recursion_limit}]
    /\ ran = [n \in Nodes |-> 0]
    /\ called = NoCalls
    /\ returned = NoHistory
    /\ entry_question = Absent
    /\ found = {}

----------------------------------------------------------------------------
(* The graph runtime *)

\* state[key] = value made on the dict a node or a routing function was given
SetItem(s, key, value) ==
    IF keeps_inplace THEN [s EXCEPT ![key] = value] ELSE s

\* a node may run while the step budget lasts
CanStep(node) ==
    /\ pc = node
    /\ steps < config.recursion_limit

\* bookkeeping of one node execution that made no call
Ran(node) ==
    /\ steps' = steps + 1
    /\ ran' = [ran EXCEPT ![node] = @ + 1]
    /\ called' = NoCalls

\* bookkeeping of one node execution that called chain with question
RanCalling(node, chain, question) ==
    /\ steps' = steps + 1
    /\ ran' = [ran EXCEPT ![node] = @ + 1]
    /\ called' = [NoCalls EXCEPT ![chain] = question]

\* an exception leaves the node: no update is applied, the request is over
Escapes ==
    /\ pc' = RAISED
    /\ state' = state

\* whether the next execution of an adapter node is the first of its loop
FirstAttempt(node) ==
    ran[node] = 0

\* empty or failed evidence, as the adapter gave it
NoEvidence(evidence) ==
    evidence \in {"", VectorNothing, EmptyRows, Raises, McpAgentError}

\* the adapters that have returned evidence, after adapter returned evidence
Found(adapter, evidence) ==
    IF NoEvidence(evidence) THEN found ELSE found \cup {adapter}

\* what a retry loop remembers of its attempts: the last two results and
\* the last result that held evidence
Attempted(first, h, evidence) ==
    LET before == IF first THEN NoHistory ELSE h IN
    [ last |-> evidence,
      previous |-> before.last,
      best |-> IF NoEvidence(evidence) THEN before.best ELSE evidence ]

----------------------------------------------------------------------------
(* Guardrails *)

\* guardrails_node_returns with the refused question blanked out
guardrails_node_returns_blanking_question(s, decision) ==
    IF decision = "irrelevant"
    THEN [s EXCEPT !.is_relevant = PyFalse, !.answer = Refusal,
                   !.question = None]
    ELSE [s EXCEPT !.is_relevant = PyTrue]

\* the session after the update guardrails_node returns
guardrails_node_returns(s, decision) ==
    IF decision = "irrelevant"
    THEN [s EXCEPT !.is_relevant = PyFalse, !.answer = Refusal]
    ELSE [s EXCEPT !.is_relevant = PyTrue]

\* decide_relevance asking the gate again on an irrelevant verdict
decide_relevance_asking_again(s) ==
    IF Truthy(s.is_relevant) THEN "log_or_cyber_router" ELSE "guardrails"

\* decide_relevance with the gate's verdict ignored
decide_relevance_ignoring_gate(s) ==
    "log_or_cyber_router"

decide_relevance(s) ==
    IF Truthy(s.is_relevant) THEN "log_or_cyber_router" ELSE END

guardrails_node ==
    /\ CanStep("guardrails")
    /\ RanCalling("guardrails", "guardrails_chain", state.question)
    /\ \E decision \in GuardrailsDecisions :
         IF decision = Raises
         THEN Escapes
         ELSE LET s == guardrails_node_returns(state, decision) IN
              /\ state' = s
              /\ pc' = decide_relevance(s)
    /\ UNCHANGED <<keeps_inplace, config, returned, entry_question, found>>

(* Router *)

log_or_cyber_router_node_returns(s, datasource) ==
    IF datasource = "log_analysis"
    THEN [s EXCEPT !.is_log_question = PyTrue]
    ELSE [s EXCEPT !.is_log_question = PyFalse]

\* decide_log_vs_cyber with the log branch entered at the Cypher loop
decide_log_vs_cyber_skipping_vector(s) ==
    IF Truthy(s.is_log_question) THEN "cypher_agent" ELSE "mcp_rdf_agent"

\* decide_log_vs_cyber with both branches sent to the vector agent
decide_log_vs_cyber_always_logs(s) ==
    "vector_agent"

decide_log_vs_cyber(s) ==
    IF Truthy(s.is_log_question) THEN "vector_agent" ELSE "mcp_rdf_agent"

log_or_cyber_router_node ==
    /\ CanStep("log_or_cyber_router")
    /\ RanCalling("log_or_cyber_router", "router_chain", state.question)
    /\ \E datasource \in RouterDatasources :
         IF datasource = Raises
         THEN Escapes
         ELSE LET s == log_or_cyber_router_node_returns(state, datasource) IN
              /\ state' = s
              /\ pc' = decide_log_vs_cyber(s)
    /\ UNCHANGED <<keeps_inplace, config, returned, entry_question, found>>

----------------------------------------------------------------------------
(* The vector loop *)

\* the update of vector_search_node: the adapter's text, or the error marker
vector_search_node_returns(s, result) ==
    IF result = Raises
    THEN [s EXCEPT !.log_vector_context = VectorError]
    ELSE [s EXCEPT !.log_vector_context = result]

vector_search_node ==
    /\ CanStep("vector_agent")
    /\ RanCalling("vector_agent", "query_vector_search", state.question)
    /\ \E result \in VectorResults :
         /\ state' = vector_search_node_returns(state, result)
         /\ returned' = Attempted(FirstAttempt("vector_agent"), returned, result)
         /\ found' = Found("query_vector_search", result)
    /\ entry_question' = IF FirstAttempt("vector_agent")
                         THEN state.question ELSE entry_question
    /\ pc' = "review_vector_answer"
    /\ UNCHANGED <<keeps_inplace, config>>

\* the question of a review with the working question in place of the
\* original one
review_question_rewritten(s) ==
    s.question

\* question = state['original_question'] of both review nodes
review_question(s) ==
    s.original_question

\* whether review_vector_node returns before it calls review_chain
review_vector_short_circuit(context) ==
    ~Truthy(context) \/ HasVectorErrorMarker(context)

\* the dict of review_vector_node after its item assignment (lines 67-69)
review_vector_node_keeps(s) ==
    IF Truthy(s.log_vector_context) /\ ~HasVectorErrorMarker(s.log_vector_context)
    THEN SetItem(s, "latest_vector_context", s.log_vector_context)
    ELSE s

\* the session after the update review_vector_node returns
review_vector_node_returns(s, decision) ==
    IF review_vector_short_circuit(s.log_vector_context)
    THEN [s EXCEPT !.vector_answer_sufficient = PyFalse,
                   !.log_vector_context = None]
    ELSE [s EXCEPT !.vector_answer_sufficient = PyBool(decision = "sufficient")]

\* decide_after_vector_review with the retry test off by one (<= for <)
decide_after_vector_review_off_by_one(s) ==
    IF Truthy(s.vector_answer_sufficient)
    THEN [goto |-> "cypher_agent", state |-> s]
    ELSE IF s.vector_iteration_count <= s.max_iterations
    THEN [goto |-> "vector_reflection", state |-> s]
    ELSE IF Truthy(s.latest_vector_context)
    THEN [goto |-> "cypher_agent",
          state |-> SetItem(s, "log_vector_context", s.latest_vector_context)]
    ELSE [goto |-> "cypher_agent", state |-> s]

decide_after_vector_review(s) ==
    IF Truthy(s.vector_answer_sufficient)
    THEN [goto |-> "cypher_agent", state |-> s]
    ELSE IF s.vector_iteration_count < s.max_iterations
    THEN [goto |-> "vector_reflection", state |-> s]
    ELSE IF Truthy(s.latest_vector_context)
    THEN [goto |-> "cypher_agent",
          state |-> SetItem(s, "log_vector_context", s.latest_vector_context)]
    ELSE [goto |-> "cypher_agent", state |-> s]

review_vector_node ==
    /\ CanStep("review_vector_answer")
    /\ LET kept == review_vector_node_keeps(state) IN
       IF review_vector_short_circuit(state.log_vector_context)
       THEN LET routed == decide_after_vector_review(
                              review_vector_node_returns(kept, "insufficient")) IN
            /\ Ran("review_vector_answer")
            /\ state' = routed.state
            /\ pc' = routed.goto
       ELSE /\ RanCalling("review_vector_answer", "review_chain_vector",
                       review_question(state))
            /\ \E decision \in ReviewDecisions :
                 IF decision = Raises
                 THEN Escapes
                 ELSE LET routed == decide_after_vector_review(
                                        review_vector_node_returns(kept, decision)) IN
                      /\ state' = routed.state
                      /\ pc' = routed.goto
    /\ UNCHANGED <<keeps_inplace, config, returned, entry_question, found>>

\* vector_reflection_node_returns with the rephrasing written to both
\* question fields
vector_reflection_node_returns_rewriting_original(s, rephrased_question) ==
    [s EXCEPT !.question = rephrased_question,
              !.original_question = rephrased_question,
              !.vector_iteration_count = s.vector_iteration_count + 1]

\* vector_reflection_node_returns leaving the attempt counter alone
vector_reflection_node_returns_not_counting(s, rephrased_question) ==
    [s EXCEPT !.question = rephrased_question]

\* vector_reflection_node_returns counting two attempts for one
vector_reflection_node_returns_counting_twice(s, rephrased_question) ==
    [s EXCEPT !.question = rephrased_question,
              !.vector_iteration_count = s.vector_iteration_count + 2]

vector_reflection_node_returns(s, rephrased_question) ==
    [s EXCEPT !.question = rephrased_question,
              !.vector_iteration_count = s.vector_iteration_count + 1]

vector_reflection_node ==
    /\ CanStep("vector_reflection")
    /\ RanCalling("vector_reflection", "vector_reflection_chain", state.original_question)
    /\ \E rephrased_question \in Rephrasings \cup {Raises} :
         IF rephrased_question = Raises
         THEN Escapes
         ELSE /\ state' = vector_reflection_node_returns(state, rephrased_question)
              /\ pc' = "vector_agent"
    /\ UNCHANGED <<keeps_inplace, config, returned, entry_question, found>>

----------------------------------------------------------------------------
(* The Cypher loop *)

GeneratedQuery ==
    "MATCH (n) RETURN n"

\* cypher_query_node_returns with the generated query written over the
\* working question
cypher_query_node_returns_rewriting_question(s, result) ==
    IF result = Raises
    THEN [s EXCEPT !.error = CypherErrorText,
                   !.log_cypher_context = EmptyRows,
                   !.cypher_query = CypherFailedQuery]
    ELSE [s EXCEPT !.cypher_query = GeneratedQuery,
                   !.question = GeneratedQuery,
                   !.log_cypher_context = result]

\* cypher_query_node_returns without the except branch of lines 117-123
cypher_query_node_returns_unhandled(s, result) ==
    [s EXCEPT !.cypher_query = GeneratedQuery,
              !.log_cypher_context = result]

\* the update of cypher_query_node: query and rows, or the failure values
cypher_query_node_returns(s, result) ==
    IF result = Raises
    THEN [s EXCEPT !.error = CypherErrorText,
                   !.log_cypher_context = EmptyRows,
                   !.cypher_query = CypherFailedQuery]
    ELSE [s EXCEPT !.cypher_query = GeneratedQuery,
                   !.log_cypher_context = result]

cypher_query_node ==
    /\ CanStep("cypher_agent")
    /\ RanCalling("cypher_agent", "query_cypher", state.question)
    /\ \E result \in CypherResults :
         /\ state' = cypher_query_node_returns(state, result)
         /\ returned' = Attempted(FirstAttempt("cypher_agent"), returned, result)
         /\ found' = Found("query_cypher", result)
    /\ entry_question' = IF FirstAttempt("cypher_agent")
                         THEN state.question ELSE entry_question
    /\ pc' = "review_cypher_answer"
    /\ UNCHANGED <<keeps_inplace, config>>

\* context = str(state['log_cypher_context']); "if not context" (line 136)
review_cypher_short_circuit(rows) ==
    ~Truthy(Str(rows))

\* the dict of review_cypher_node after its item assignment (lines 132-134)
review_cypher_node_keeps(s) ==
    IF Truthy(Str(s.log_cypher_context)) /\ Str(s.log_cypher_context) # None
    THEN SetItem(s, "latest_cypher_context", Str(s.log_cypher_context))
    ELSE s

review_cypher_node_returns(s, decision) ==
    IF review_cypher_short_circuit(s.log_cypher_context)
    THEN [s EXCEPT !.cypher_answer_sufficient = PyFalse,
                   !.log_cypher_context = None]
    ELSE [s EXCEPT !.cypher_answer_sufficient = PyBool(decision = "sufficient")]

\* decide_after_cypher_review without its test of the review verdict
decide_after_cypher_review_ignoring_verdict(s) ==
    IF s.cypher_iteration_count < s.max_iterations
    THEN [goto |-> "cypher_reflection", state |-> s]
    ELSE IF Truthy(s.latest_cypher_context)
    THEN [goto |-> "log_analysis_agent",
          state |-> SetItem(s, "log_cypher_context", s.latest_cypher_context)]
    ELSE [goto |-> "log_analysis_agent", state |-> s]

decide_after_cypher_review(s) ==
    IF Truthy(s.cypher_answer_sufficient)
    THEN [goto |-> "log_analysis_agent", state |-> s]
    ELSE IF s.cypher_iteration_count < s.max_iterations
    THEN [goto |-> "cypher_reflection", state |-> s]
    ELSE IF Truthy(s.latest_cypher_context)
    THEN [goto |-> "log_analysis_agent",
          state |-> SetItem(s, "log_cypher_context", s.latest_cypher_context)]
    ELSE [goto |-> "log_analysis_agent", state |-> s]

review_cypher_node ==
    /\ CanStep("review_cypher_answer")
    /\ LET kept == review_cypher_node_keeps(state) IN
       IF review_cypher_short_circuit(state.log_cypher_context)
       THEN LET routed == decide_after_cypher_review(
                              review_cypher_node_returns(kept, "insufficient")) IN
            /\ Ran("review_cypher_answer")
            /\ state' = routed.state
            /\ pc' = routed.goto
       ELSE /\ RanCalling("review_cypher_answer", "review_chain_cypher",
                       review_question(state))
            /\ \E decision \in ReviewDecisions :
                 IF decision = Raises
                 THEN Escapes
                 ELSE LET routed == decide_after_cypher_review(
                                        review_cypher_node_returns(kept, decision)) IN
                      /\ state' = routed.state
                      /\ pc' = routed.goto
    /\ UNCHANGED <<keeps_inplace, config, returned, entry_question, found>>

\* cypher_reflection_node_returns with the counter left as it was
cypher_reflection_node_returns_not_counting(s, rephrased_question) ==
    [s EXCEPT !.question = rephrased_question]

cypher_reflection_node_returns(s, rephrased_question) ==
    [s EXCEPT !.question = rephrased_question,
              !.cypher_iteration_count = s.cypher_iteration_count + 1]

cypher_reflection_node ==
    /\ CanStep("cypher_reflection")
    /\ RanCalling("cypher_reflection", "reflection_chain", state.original_question)
    /\ \E rephrased_question \in Rephrasings \cup {Raises} :
         IF rephrased_question = Raises
         THEN Escapes
         ELSE /\ state' = cypher_reflection_node_returns(state, rephrased_question)
              /\ pc' = "cypher_agent"
    /\ UNCHANGED <<keeps_inplace, config, returned, entry_question, found>>

----------------------------------------------------------------------------
(* Escalation judgment *)

LogSummary ==
    "log summary"

\* log_analysis_node_returns taking the request off the log branch when it
\* escalates
log_analysis_node_returns_rerouting(s, decision, generated_question) ==
    IF decision = "cskg_required"
    THEN [s EXCEPT !.is_cskg_required = PyTrue,
                   !.is_log_question = PyFalse,
                   !.answer = LogSummary,
                   !.generated_question_for_rdf = generated_question]
    ELSE [s EXCEPT !.is_cskg_required = PyFalse,
                   !.answer = LogSummary]

log_analysis_node_returns(s, decision, generated_question) ==
    IF decision = "cskg_required"
    THEN [s EXCEPT !.is_cskg_required = PyTrue,
                   !.answer = LogSummary,
                   !.generated_question_for_rdf = generated_question]
    ELSE [s EXCEPT !.is_cskg_required = PyFalse,
                   !.answer = LogSummary]

\* decide_after_log_analysis ending the request when it does not escalate
decide_after_log_analysis_ending_early(s) ==
    IF Truthy(s.is_cskg_required) THEN "mcp_rdf_agent" ELSE END

\* decide_after_log_analysis escalating whatever the judgment decided
decide_after_log_analysis_always_escalating(s) ==
    "mcp_rdf_agent"

decide_after_log_analysis(s) ==
    IF Truthy(s.is_cskg_required) THEN "mcp_rdf_agent" ELSE "synthesizer"

log_analysis_node ==
    /\ CanStep("log_analysis_agent")
    /\ RanCalling("log_analysis_agent", "log_analysis_chain", state.original_question)
    /\ \E decision \in LogAnalysisDecisions, generated_question \in GeneratedQuestions :
         IF decision = Raises
         THEN Escapes
         ELSE LET s == log_analysis_node_returns(state, decision, generated_question) IN
              /\ state' = s
              /\ pc' = decide_after_log_analysis(s)
    /\ UNCHANGED <<keeps_inplace, config, returned, entry_question, found>>

----------------------------------------------------------------------------
(* Structured-knowledge (MCP) agent.  run_mcp_agent catches every exception *)
(* of the agent and returns an error text, so the node's own handler is     *)
(* never entered.                                                           *)

question_to_ask(s) ==
    IF Truthy(s.is_log_question) /\ Truthy(s.generated_question_for_rdf)
    THEN s.generated_question_for_rdf
    ELSE s.original_question

mcp_rdf_agent_node_returns(s, mcp_context) ==
    [s EXCEPT !.mcp_rdf_context = mcp_context]

mcp_rdf_agent_node ==
    /\ CanStep("mcp_rdf_agent")
    /\ RanCalling("mcp_rdf_agent", "run_mcp_agent", question_to_ask(state))
    /\ \E mcp_context \in McpResults :
         /\ state' = mcp_rdf_agent_node_returns(state, mcp_context)
         /\ found' = Found("run_mcp_agent", mcp_context)
    /\ pc' = "synthesizer"
    /\ UNCHANGED <<keeps_inplace, config, returned, entry_question>>

----------------------------------------------------------------------------
(* Synthesizer *)

\* log_cypher / log_vector of synthesize_node (lines 215-216)
context_or_default(v) ==
    IF Truthy(v) THEN Str(v) ELSE NotApplicable

\* the arguments of synthesis_chain.invoke (lines 222-228)
synthesis_input(s) ==
    [ original_question |-> s.original_question,
      log_cypher_context |-> context_or_default(s.log_cypher_context),
      log_vector_context |-> context_or_default(s.log_vector_context),
      generated_question_for_rdf |->
          Str(IF s.generated_question_for_rdf = Absent
              THEN NotApplicable ELSE s.generated_question_for_rdf),
      mcp_rdf_context |->
          Str(IF s.mcp_rdf_context = Absent THEN NoData ELSE s.mcp_rdf_context) ]

\* the test of line 219 without its look at mcp_rdf_context
nothing_found_ignoring_knowledge(s) ==
    /\ context_or_default(s.log_cypher_context) = NotApplicable
    /\ context_or_default(s.log_vector_context) = NotApplicable

\* the test of line 219: nothing to synthesize from
nothing_found(s) ==
    /\ ~Truthy(s.mcp_rdf_context)
    /\ context_or_default(s.log_cypher_context) = NotApplicable
    /\ context_or_default(s.log_vector_context) = NotApplicable

synthesize_node_returns(s, final_answer) ==
    [s EXCEPT !.answer = final_answer]

synthesize_node ==
    /\ CanStep("synthesizer")
    /\ IF nothing_found(state)
       THEN /\ Ran("synthesizer")
            /\ state' = synthesize_node_returns(state, NotFound)
            /\ pc' = END
       ELSE /\ RanCalling("synthesizer", "synthesis_chain", state.original_question)
            /\ \E final_answer \in SynthesisResults :
                 IF final_answer = Raises
                 THEN Escapes
                 ELSE /\ state' = synthesize_node_returns(state, final_answer)
                      /\ pc' = END
    /\ UNCHANGED <<keeps_inplace, config, returned, entry_question, found>>

----------------------------------------------------------------------------
(* The step budget: with recursion_limit steps done and a node still to    *)
(* run, the runtime raises GraphRecursionError.                            *)

out_of_steps ==
    /\ pc \in Nodes
    /\ steps >= config.recursion_limit
    /\ pc' = RECURSION_ERROR
    /\ UNCHANGED <<state, steps, keeps_inplace, config, ran, called, returned,
                   entry_question, found>>

Next ==
    \/ guardrails_node
    \/ log_or_cyber_router_node
    \/ vector_search_node
    \/ review_vector_node
    \/ vector_reflection_node
    \/ cypher_query_node
    \/ review_cypher_node
    \/ cypher_reflection_node
    \/ log_analysis_node
    \/ mcp_rdf_agent_node
    \/ synthesize_node
    \/ out_of_steps

Spec ==
    Init /\ [][Next]_vars

\* the runtime runs the next node as long as there is one
FairSpec ==
    Spec /\ WF_vars(Next)

----------------------------------------------------------------------------
(* Where a request stands *)

\* the request was started as run.py starts it
DefaultConfig ==
    config.recursion_limit = recursion_limit

\* the retry loops have routed on to the next stage
VectorLoopLeft ==
    pc = "cypher_agent" \/ ran["cypher_agent"] > 0

CypherLoopLeft ==
    pc = "log_analysis_agent" \/ ran["log_analysis_agent"] > 0

\* the vector loop has just routed on; returned is still its history
VectorLoopJustLeft ==
    pc = "cypher_agent" /\ ran["cypher_agent"] = 0

CypherLoopJustLeft ==
    pc = "log_analysis_agent"

\* the nodes of each retry loop: ATTEMPT, REVIEW and REFLECT
VectorLoopNodes ==
    {"vector_agent", "review_vector_answer", "vector_reflection"}

CypherLoopNodes ==
    {"cypher_agent", "review_cypher_answer", "cypher_reflection"}

RetrievalNodes ==
    {"vector_agent", "cypher_agent", "mcp_rdf_agent"}

----------------------------------------------------------------------------
(* Properties *)

\* C1: a question the Relevance Gate classifies as irrelevant ends the run
\* right after the gate: the gate is the only step executed, no adapter and
\* no other node ever runs, and the answer is the fixed refusal string.
C1_IrrelevantEndsAtGate ==
    state.is_relevant = PyFalse =>
        /\ pc = END
        /\ steps = 1
        /\ ran = [n \in Nodes |-> IF n = "guardrails" THEN 1 ELSE 0]
        /\ \A c \in Chains \ {"guardrails_chain"} : called[c] = Absent
        /\ state.answer = Refusal

C1_Witness ==
    /\ state.is_relevant = PyFalse
    /\ pc = END
    /\ ran["guardrails"] = 1

\* C2: when a retry loop has routed on to the next stage, its retry counter
\* lies in 1..max_iterations, for every positive max_iterations.
C2_RetryCountInRange ==
    /\ VectorLoopLeft =>
           state.vector_iteration_count \in 1..state.max_iterations
    /\ CypherLoopLeft =>
           state.cypher_iteration_count \in 1..state.max_iterations

\* both loops left exhausted, with the counters at the ceiling of run.py
C2_Witness ==
    /\ CypherLoopLeft
    /\ state.max_iterations = DefaultMaxIterations
    /\ state.vector_iteration_count = state.max_iterations
    /\ state.cypher_iteration_count = state.max_iterations
    /\ state.vector_answer_sufficient = PyFalse
    /\ state.cypher_answer_sufficient = PyFalse

\* evidence of an adapter, or its text, that holds nothing
HoldsNoEvidence(v) ==
    \/ ~Truthy(v)
    \/ v \in {VectorNothing, Str(EmptyRows)}
    \/ HasVectorErrorMarker(v)

\* C3: whenever a retry loop exits through ACCEPT (its review verdict is
\* sufficient) the evidence stored for that source is non-empty; a Cypher
\* attempt that returned zero rows, or that failed, is never accepted.
C3_AcceptedEvidenceNonEmpty ==
    /\ (VectorLoopJustLeft /\ state.vector_answer_sufficient = PyTrue) =>
           /\ ~HoldsNoEvidence(state.log_vector_context)
           /\ ~NoEvidence(returned.last)
    /\ (CypherLoopJustLeft /\ state.cypher_answer_sufficient = PyTrue) =>
           /\ ~HoldsNoEvidence(state.log_cypher_context)
           /\ ~NoEvidence(returned.last)

\* the slot holds the evidence e, as the adapter gave it or as its text
HoldsEvidence(slot, e) ==
    slot = e \/ slot = Str(e)

\* C4: when a retry loop exits through EXHAUSTED (last review insufficient
\* and the counter at max_iterations) the evidence slot handed on equals the
\* high-water-mark evidence if some attempt of the loop returned evidence,
\* and is empty or absent only if no attempt did.  Stated for a runtime that
\* keeps the item assignments of lines 69, 134, 280 and 299, without which
\* no high-water-mark is ever stored.
C4_ExhaustedEvidenceIsHighWaterMark ==
    keeps_inplace =>
        /\ (VectorLoopJustLeft /\ state.vector_answer_sufficient = PyFalse) =>
               IF returned.best = Absent
               THEN HoldsNoEvidence(state.log_vector_context)
               ELSE HoldsEvidence(state.log_vector_context, returned.best)
        /\ (CypherLoopJustLeft /\ state.cypher_answer_sufficient = PyFalse) =>
               IF returned.best = Absent
               THEN HoldsNoEvidence(state.log_cypher_context)
               ELSE HoldsEvidence(state.log_cypher_context, returned.best)

\* the last attempt of the vector / Cypher loop has been reviewed
VectorAttemptReviewed ==
    /\ ran["vector_agent"] > 0
    /\ ran["cypher_agent"] = 0
    /\ pc \in {"vector_reflection", "vector_agent", "cypher_agent"}

CypherAttemptReviewed ==
    /\ ran["cypher_agent"] > 0
    /\ pc \in {"cypher_reflection", "cypher_agent", "log_analysis_agent"}

\* attempt k returned evidence and attempt k+1 returned none
EvidenceThenNone ==
    /\ returned.previous # Absent
    /\ ~NoEvidence(returned.previous)
    /\ NoEvidence(returned.last)

\* C5 (first part): if attempt k of a loop returned evidence and attempt k+1
\* returned empty or error evidence, then once attempt k+1 has been reviewed
\* the high-water-mark field holds the evidence of attempt k.  Stated for a
\* runtime that keeps the item assignments of lines 69 and 134.
C5_HighWaterMarkHoldsEarlierEvidence ==
    keeps_inplace =>
        /\ (VectorAttemptReviewed /\ EvidenceThenNone) =>
               HoldsEvidence(state.latest_vector_context, returned.previous)
        /\ (CypherAttemptReviewed /\ EvidenceThenNone) =>
               HoldsEvidence(state.latest_cypher_context, returned.previous)

\* C5 (second part): a high-water-mark field that holds a value keeps
\* holding one in every later state of the request.
C5_HighWaterMarkStaysSet ==
    [][ /\ Truthy(state.latest_vector_context) =>
               Truthy(state.latest_vector_context')
        /\ Truthy(state.latest_cypher_context) =>
               Truthy(state.latest_cypher_context') ]_vars

\* C5: the high-water-mark of a loop holds the evidence of attempt k after
\* an empty attempt k+1, and once non-empty it stays non-empty.
C5_HighWaterMarkKept ==
    []C5_HighWaterMarkHoldsEarlierEvidence /\ C5_HighWaterMarkStaysSet

\* the first attempt of a loop was reviewed and found sufficient
FirstVectorAttemptAccepted ==
    /\ ran["review_vector_answer"] = 1
    /\ state.vector_answer_sufficient = PyTrue

FirstCypherAttemptAccepted ==
    /\ ran["review_cypher_answer"] = 1
    /\ state.cypher_answer_sufficient = PyTrue

\* C6: if the first attempt of a loop returns evidence that the review finds
\* sufficient, the loop makes exactly one ATTEMPT and one REVIEW and no
\* REFLECT, routes on with its retry counter at 1 and with the working
\* question it started with, for every max_iterations.
C6_SufficientFirstAttemptEndsLoop ==
    /\ FirstVectorAttemptAccepted =>
           /\ pc \notin VectorLoopNodes
           /\ ran["vector_agent"] = 1
           /\ ran["vector_reflection"] = 0
           /\ state.vector_iteration_count = 1
           /\ VectorLoopJustLeft =>
                  /\ state.question = entry_question
                  /\ state.question = state.original_question
    /\ FirstCypherAttemptAccepted =>
           /\ pc \notin CypherLoopNodes
           /\ ran["cypher_agent"] = 1
           /\ ran["cypher_reflection"] = 0
           /\ state.cypher_iteration_count = 1
           /\ state.question = entry_question

\* both loops accepted their first attempt, with retries to spare
C6_Witness ==
    /\ FirstVectorAttemptAccepted
    /\ FirstCypherAttemptAccepted
    /\ CypherLoopJustLeft
    /\ state.max_iterations = DefaultMaxIterations
    /\ returned.last = Rows1

\* the three evidence slots as the synthesizer finds them
AllSlotsEmpty ==
    /\ ~Truthy(state.log_cypher_context)
    /\ ~Truthy(state.log_vector_context)
    /\ ~Truthy(state.mcp_rdf_context)

\* C7: when the synthesizer runs with all three evidence slots empty or
\* absent it sets the answer to the fixed not-found text and does not call
\* synthesis_chain; with at least one slot non-empty it calls
\* synthesis_chain, once (the synthesizer runs once and is the last step).
C7_SynthesizerCallsJudgmentOnlyWithEvidence ==
    ran["synthesizer"] > 0 =>
        /\ ran["synthesizer"] = 1
        /\ pc \in {END, RAISED}
        /\ IF AllSlotsEmpty
           THEN /\ called["synthesis_chain"] = Absent
                /\ state.answer = NotFound
                /\ pc = END
           ELSE /\ called["synthesis_chain"] = state.original_question
                /\ pc = END => state.answer \in SynthesisResults

\* the synthesizer ended a log-branch request that found nothing at all
C7_Witness ==
    /\ ran["synthesizer"] = 1
    /\ state.is_log_question = PyTrue
    /\ AllSlotsEmpty
    /\ state.answer = NotFound
    /\ pc = END

\* the synthesizer called the Judgment Service with knowledge evidence only
C7_WitnessEvidence ==
    /\ ran["synthesizer"] = 1
    /\ ~Truthy(state.log_cypher_context)
    /\ ~Truthy(state.log_vector_context)
    /\ state.mcp_rdf_context = "k1"
    /\ called["synthesis_chain"] # Absent
    /\ pc = END

GeneralBranch ==
    state.is_log_question = PyFalse

\* on the general branch only the gate, the router, the MCP agent and the
\* synthesizer run, each at most once, and the MCP agent is asked the
\* original question
C8_GeneralBranchSteps ==
    GeneralBranch =>
        /\ \A n \in Nodes \ {"guardrails", "log_or_cyber_router",
                              "mcp_rdf_agent", "synthesizer"} : ran[n] = 0
        /\ ran["mcp_rdf_agent"] <= 1
        /\ ran["synthesizer"] <= ran["mcp_rdf_agent"]
        /\ pc = "mcp_rdf_agent" <=> ran["mcp_rdf_agent"] = 0
        /\ pc = "synthesizer" <=> (ran["mcp_rdf_agent"] = 1 /\ ran["synthesizer"] = 0)
        /\ pc = "synthesizer" =>
               /\ called["run_mcp_agent"] = state.original_question
               /\ called["run_mcp_agent"] = OriginalQuestion
        /\ \A c \in {"query_vector_search", "query_cypher", "review_chain_vector",
                     "review_chain_cypher", "vector_reflection_chain",
                     "reflection_chain", "log_analysis_chain"} : called[c] = Absent

\* C8: for every question the router sends to the general branch the MCP
\* adapter is queried exactly once, with the original question, and then the
\* synthesizer runs; the vector and Cypher adapters, their review and
\* reflection steps and the escalation judgment never run.
C8_GeneralBranchQueriesKnowledgeOnce ==
    /\ []C8_GeneralBranchSteps
    /\ GeneralBranch ~> (ran["mcp_rdf_agent"] = 1 /\ ran["synthesizer"] = 1)

C8_Witness ==
    /\ GeneralBranch
    /\ ran["mcp_rdf_agent"] = 1
    /\ ran["synthesizer"] = 1
    /\ state.mcp_rdf_context = "k1"
    /\ pc = END

\* the request is over: it reached END, or an exception reached the caller
RequestOver ==
    pc \notin Nodes

\* every vector attempt made so far returned empty or error evidence
VectorNeverFound ==
    /\ state.is_log_question = PyTrue
    /\ ran["vector_agent"] > 0
    /\ "query_vector_search" \notin found

\* C9: on the log branch, if the vector adapter returns empty or error
\* evidence on every attempt, the vector loop makes exactly max_iterations
\* attempts and ends with vector_iteration_count = max_iterations and no
\* vector evidence, and the run goes on to the Cypher loop and then to the
\* synthesizer: a request started as run.py starts it never ends before.
C9_ExhaustedVectorLoopGoesOn ==
    (DefaultConfig /\ VectorNeverFound) =>
        /\ VectorLoopLeft =>
               /\ ran["vector_agent"] = state.max_iterations
               /\ state.vector_iteration_count = state.max_iterations
               /\ ~Truthy(state.log_vector_context)
        /\ RequestOver =>
               /\ ran["vector_agent"] = state.max_iterations
               /\ ran["cypher_agent"] > 0
               /\ ran["synthesizer"] = 1

\* C10: for every sequence of adapter and Judgment Service outcomes a
\* request started as run.py starts it has a next step in every state
\* before its end, and its end is the END state with a final answer set.
C10_EveryRequestEndsWithAnswer ==
    DefaultConfig =>
        /\ pc \in Nodes => ENABLED Next
        /\ RequestOver => (pc = END /\ Truthy(state.answer))

\* every request comes to an end: END, an exception or the step budget
RequestTerminates ==
    <>RequestOver

----------------------------------------------------------------------------
(* Failures of the collaborators *)

\* the retrieval adapters, and the chains of the Judgment Service
Adapters ==
    {"query_vector_search", "query_cypher", "run_mcp_agent"}

JudgmentChains ==
    Chains \ Adapters

\* the last step called a chain of the Judgment Service
JudgmentCalled ==
    \E c \in JudgmentChains : called[c] # Absent

\* C11: a failure of a Judgment Service call (gate, router, review,
\* reflection, escalation judgment, synthesis) never escapes to the caller:
\* no step that called the Judgment Service ends the request with an
\* exception, and a request that is over has a final answer.
C11_JudgmentFailureNeverEscapes ==
    /\ JudgmentCalled => pc # RAISED
    /\ (DefaultConfig /\ RequestOver) => Truthy(state.answer)

\* C12: an exception of a retrieval adapter is caught and turned into an
\* evidence value (the vector error marker; empty rows with the diagnostic
\* query text; the MCP error text), the run continues with the review or the
\* synthesizer (unless the step budget is spent), and no step that called
\* an adapter ends with an exception.
C12_AdapterFailureBecomesEvidence ==
    /\ (called["query_vector_search"] # Absent /\ returned.last = Raises) =>
           /\ pc \in {"review_vector_answer", RECURSION_ERROR}
           /\ state.log_vector_context = VectorError
    /\ (called["query_cypher"] # Absent /\ returned.last = Raises) =>
           /\ pc \in {"review_cypher_answer", RECURSION_ERROR}
           /\ state.log_cypher_context = EmptyRows
           /\ state.cypher_query = CypherFailedQuery
           /\ state.error = CypherErrorText
    /\ called["run_mcp_agent"] # Absent =>
           /\ pc \in {"synthesizer", RECURSION_ERROR}
           /\ state.mcp_rdf_context \in McpResults
    /\ pc = RAISED => \A a \in Adapters : called[a] = Absent

\* the Cypher adapter has just failed and its review is next
C12_Witness ==
    /\ called["query_cypher"] # Absent
    /\ returned.last = Raises
    /\ pc = "review_cypher_answer"
    /\ state.log_cypher_context = EmptyRows
    /\ state.log_vector_context = None

----------------------------------------------------------------------------
(* What main prints *)

\* print(final_result.get('answer')) of run.py: reached only when
\* app.ainvoke returns, that is when the graph reached END
final_answer_printed_whatever_the_end ==
    Str(IF state.answer = Absent THEN None ELSE state.answer)

final_answer_printed ==
    IF pc = END
    THEN Str(IF state.answer = Absent THEN None ELSE state.answer)
    ELSE Absent

\* C13: no request runs more steps than its recursion_limit; a request
\* that still has a node to run when the budget is spent is aborted with a
\* failure, and nothing is printed as its answer: neither a report nor the
\* partial answer an earlier step left in the answer field.
C13_BudgetExceededAbortsWithoutAnswer ==
    /\ steps <= config.recursion_limit
    /\ pc = RECURSION_ERROR =>
           /\ steps = config.recursion_limit
           /\ ran["synthesizer"] = 0
           /\ final_answer_printed = Absent

\* the budget ran out after the escalation judgment had left its summary
\* in the answer field
C13_Witness ==
    /\ pc = RECURSION_ERROR
    /\ ran["log_analysis_agent"] = 1
    /\ state.answer = LogSummary

----------------------------------------------------------------------------
(* Isolation of the two retry loops *)

\* the session fields that belong to each loop alone
VectorLoopFields ==
    {"vector_iteration_count", "log_vector_context", "latest_vector_context",
     "vector_answer_sufficient"}

CypherLoopFields ==
    {"cypher_iteration_count", "log_cypher_context", "latest_cypher_context",
     "cypher_answer_sufficient", "cypher_query", "error"}

\* the question the first Cypher attempt is asked is the one the request
\* came with, whatever the vector loop did
C14_FirstCypherQuestion ==
    (ran["cypher_agent"] = 1 /\ called["query_cypher"] # Absent) =>
        called["query_cypher"] = state.original_question

\* no step of the vector loop changes a field of the Cypher loop or the
\* working question the Cypher loop will read
VectorStepLeavesCypherState ==
    pc \in VectorLoopNodes =>
        \A f \in CypherLoopFields \cup {"question"} : state'[f] = state[f]

C14_VectorStepsLeaveCypherState ==
    [][VectorStepLeavesCypherState]_vars

\* no step of the Cypher loop changes a field of the vector loop
CypherStepLeavesVectorState ==
    pc \in CypherLoopNodes =>
        \A f \in VectorLoopFields : state'[f] = state[f]

C14_CypherStepsLeaveVectorState ==
    [][CypherStepLeavesVectorState]_vars

\* C14: the two retry loops are isolated: the question of the first Cypher
\* attempt does not depend on the reflections of the vector loop, no vector
\* step changes what the Cypher loop reads, and no Cypher step changes the
\* vector loop's counter, evidence or high-water-mark.
C14_LoopsIsolated ==
    /\ []C14_FirstCypherQuestion
    /\ C14_VectorStepsLeaveCypherState
    /\ C14_CypherStepsLeaveVectorState

----------------------------------------------------------------------------
(* The question fields *)

\* C15: original_question has in every reachable state the value it has in
\* the initial state: no step, the reflection steps included, writes it.
C15_OriginalQuestionNeverWritten ==
    state.original_question = initial_state(state.max_iterations).original_question

\* both loops have rephrased the working question; the original stands
C15_Witness ==
    /\ ran["vector_reflection"] > 0
    /\ ran["cypher_reflection"] > 0
    /\ state.question = "q1"
    /\ state.original_question = OriginalQuestion

(* The answer field *)

\* a step taken with the answer already written leaves the answer alone
AnswerNotRewritten ==
    state.answer # Absent => state'.answer = state.answer

\* with the answer written the request is over
C16_AnswerWriteEndsRequest ==
    state.answer # Absent => RequestOver

C16_AnswerNeverRewritten ==
    [][AnswerNotRewritten]_vars

\* C16: the answer field is written once per request and the write is
\* terminal: with the answer written the request is over, and no later
\* step writes the answer again.
C16_AnswerWrittenOnceAndLast ==
    /\ []C16_AnswerWriteEndsRequest
    /\ C16_AnswerNeverRewritten

----------------------------------------------------------------------------
(* Concurrent requests: several app.ainvoke calls in flight, each started   *)
(* by its own main() with its own initial_state dict.  Here state and pc    *)
(* are functions of the request.                                            *)

Requests ==
    {"r1", "r2"}

\* args.question of each request
question_of(r) ==
    IF r = "r1" THEN OriginalQuestion ELSE "q2"

\* one dict for all requests, in place of one dict each
session_of_shared(r) ==
    "r1"

\* the dict a request's nodes are handed: the one its main() built
session_of(r) ==
    r

\* [goto, state] a raising chain leaves behind
escapes(s) ==
    [goto |-> RAISED, state |-> s]

\* every [goto, state] one execution of node can produce from session s:
\* the node's update applied, then the routing function of its edge
node_outcomes(s, node) ==
    CASE node = "guardrails" ->
           { IF d = Raises THEN escapes(s)
             ELSE [goto |-> decide_relevance(guardrails_node_returns(s, d)),
                   state |-> guardrails_node_returns(s, d)]
             : d \in GuardrailsDecisions }
      [] node = "log_or_cyber_router" ->
           { IF d = Raises THEN escapes(s)
             ELSE [goto |-> decide_log_vs_cyber(log_or_cyber_router_node_returns(s, d)),
                   state |-> log_or_cyber_router_node_returns(s, d)]
             : d \in RouterDatasources }
      [] node = "vector_agent" ->
           { [goto |-> "review_vector_answer",
              state |-> vector_search_node_returns(s, v)] : v \in VectorResults }
      [] node = "review_vector_answer" ->
           IF review_vector_short_circuit(s.log_vector_context)
           THEN { decide_after_vector_review(
                      review_vector_node_returns(review_vector_node_keeps(s),
                                                 "insufficient")) }
           ELSE { IF d = Raises THEN escapes(s)
                  ELSE decide_after_vector_review(
                           review_vector_node_returns(review_vector_node_keeps(s), d))
                  : d \in ReviewDecisions }
      [] node = "vector_reflection" ->
           { IF q = Raises THEN escapes(s)
             ELSE [goto |-> "vector_agent",
                   state |-> vector_reflection_node_returns(s, q)]
             : q \in Rephrasings \cup {Raises} }
      [] node = "cypher_agent" ->
           { [goto |-> "review_cypher_answer",
              state |-> cypher_query_node_returns(s, c)] : c \in CypherResults }
      [] node = "review_cypher_answer" ->
           IF review_cypher_short_circuit(s.log_cypher_context)
           THEN { decide_after_cypher_review(
                      review_cypher_node_returns(review_cypher_node_keeps(s),
                                                 "insufficient")) }
           ELSE { IF d = Raises THEN escapes(s)
                  ELSE decide_after_cypher_review(
                           review_cypher_node_returns(review_cypher_node_keeps(s), d))
                  : d \in ReviewDecisions }
      [] node = "cypher_reflection" ->
           { IF q = Raises THEN escapes(s)
             ELSE [goto |-> "cypher_agent",
                   state |-> cypher_reflection_node_returns(s, q)]
             : q \in Rephrasings \cup {Raises} }
      [] node = "log_analysis_agent" ->
           { IF x[1] = Raises THEN escapes(s)
             ELSE [goto |-> decide_after_log_analysis(
                                log_analysis_node_returns(s, x[1], x[2])),
                   state |-> log_analysis_node_returns(s, x[1], x[2])]
             : x \in LogAnalysisDecisions \X GeneratedQuestions }
      [] node = "mcp_rdf_agent" ->
           { [goto |-> "synthesizer",
              state |-> mcp_rdf_agent_node_returns(s, k)] : k \in McpResults }
      [] node = "synthesizer" ->
           IF nothing_found(s)
           THEN { [goto |-> END, state |-> synthesize_node_returns(s, NotFound)] }
           ELSE { IF a = Raises THEN escapes(s)
                  ELSE [goto |-> END, state |-> synthesize_node_returns(s, a)]
                  : a \in SynthesisResults }
      [] OTHER -> {}

\* the sessions run.py builds: one per request, each with its own question
\* (and with one attempt per loop, which keeps the product of two sessions
\* small)
ConcurrentInit ==
    /\ state = [r \in Requests |->
                  [initial_state(1) EXCEPT !.question = question_of(r),
                                           !.original_question = question_of(r)]]
    /\ pc = [r \in Requests |-> "guardrails"]
    /\ steps = 0
    /\ keeps_inplace \in BOOLEAN
    /\ config = [recursion_limit |-> recursion_limit]
    /\ ran = [n \in Nodes |-> 0]
    /\ called = NoCalls
    /\ returned = NoHistory
    /\ entry_question = Absent
    /\ found = {}

\* one node execution of request r, on the dict of r
request_step(r) ==
    /\ pc[r] \in Nodes
    /\ \E n \in node_outcomes(state[session_of(r)], pc[r]) :
         /\ state' = [state EXCEPT ![session_of(r)] = n.state]
         /\ pc' = [pc EXCEPT ![r] = n.goto]
    /\ UNCHANGED <<steps, keeps_inplace, config, ran, called, returned,
                   entry_question, found>>

ConcurrentNext ==
    \E r \in Requests : request_step(r)

ConcurrentSpec ==
    ConcurrentInit /\ [][ConcurrentNext]_vars

\* a request that did not take the step has its session untouched, and the
\* request that took it moved to an outcome of its own session alone
StepOfOneSession ==
    \E r \in Requests :
        /\ [goto |-> pc'[r], state |-> state'[r]] \in node_outcomes(state[r], pc[r])
        /\ \A q \in Requests \ {r} : state'[q] = state[q] /\ pc'[q] = pc[q]

\* every session keeps the question its request came with
C17_OwnQuestion ==
    \A r \in Requests :
        /\ state[r].original_question = question_of(r)
        /\ state[r].question = question_of(r) \/ state[r].question \in Rephrasings

C17_StepsOfOneSession ==
    [][StepOfOneSession]_vars

----------------------------------------------------------------------------
(* Requests that retrieve nothing *)

\* the error texts the adapters' handlers produce
AdapterErrorTexts ==
    {VectorError, CypherErrorText, CypherFailedQuery, McpAgentError}

\* the synthesizer has run and no adapter call of the request gave evidence
SynthesizedFromNothing ==
    /\ ran["synthesizer"] > 0
    /\ found = {}

\* C18: if every adapter call of a request failed or returned empty
\* evidence (a failing MCP call included), every evidence slot is empty or
\* absent when the synthesizer runs, the synthesizer makes no Judgment
\* Service call and the final answer is the fixed not-found text; no
\* adapter error text is among the arguments of a synthesis call or in the
\* answer.
C18_NothingRetrievedGivesNotFound ==
    /\ SynthesizedFromNothing =>
           /\ AllSlotsEmpty
           /\ called["synthesis_chain"] = Absent
           /\ pc = END
           /\ state.answer = NotFound
    /\ called["synthesis_chain"] # Absent =>
           \A k \in DOMAIN synthesis_input(state) :
               synthesis_input(state)[k] \notin AdapterErrorTexts
    /\ state.answer \notin AdapterErrorTexts

(* The short-circuit of the reviews *)

\* C19: in both retry loops, when the evidence of the attempt is empty or
\* an error marker (vector: nothing retrieved or the error marker; Cypher:
\* zero rows or a failed query) the review marks it insufficient and does
\* not call review_chain.
C19_EmptyEvidenceReviewedWithoutJudgment ==
    /\ (ran["review_vector_answer"] > 0 /\ ran["cypher_agent"] = 0
            /\ NoEvidence(returned.last)) =>
           called["review_chain_vector"] = Absent
    /\ (ran["review_cypher_answer"] > 0 /\ NoEvidence(returned.last)) =>
           called["review_chain_cypher"] = Absent
    /\ (VectorAttemptReviewed /\ NoEvidence(returned.last)) =>
           state.vector_answer_sufficient = PyFalse
    /\ (CypherAttemptReviewed /\ NoEvidence(returned.last)) =>
           state.cypher_answer_sufficient = PyFalse

(* The question of the reviews *)

\* C20: every review call, of both loops and of every attempt, is given
\* original_question as its question, also after reflections have
\* rewritten the working question.
C20_ReviewAsksOriginalQuestion ==
    /\ called["review_chain_vector"] \in {Absent, state.original_question}
    /\ called["review_chain_cypher"] \in {Absent, state.original_question}

\* a Cypher review called after a reflection changed the working question
C20_Witness ==
    /\ called["review_chain_cypher"] = state.original_question
    /\ ran["cypher_reflection"] > 0
    /\ state.question # state.original_question

----------------------------------------------------------------------------
(* The retry counters *)

\* a step that enters REFLECT is a review of that loop that found the
\* evidence insufficient with the counter below max_iterations
ReflectOnlyAfterInsufficientReview ==
    /\ pc' = "vector_reflection" =>
           /\ pc = "review_vector_answer"
           /\ state'.vector_answer_sufficient = PyFalse
           /\ state'.vector_iteration_count < state'.max_iterations
    /\ pc' = "cypher_reflection" =>
           /\ pc = "review_cypher_answer"
           /\ state'.cypher_answer_sufficient = PyFalse
           /\ state'.cypher_iteration_count < state'.max_iterations

\* a review that finds the evidence insufficient with the counter at
\* max_iterations leaves the loop
InsufficientAtCeilingExhausts ==
    /\ (pc = "review_vector_answer" /\ pc' \in Nodes
            /\ state'.vector_answer_sufficient = PyFalse
            /\ state.vector_iteration_count >= state.max_iterations) =>
           pc' = "cypher_agent"
    /\ (pc = "review_cypher_answer" /\ pc' \in Nodes
            /\ state'.cypher_answer_sufficient = PyFalse
            /\ state.cypher_iteration_count >= state.max_iterations) =>
           pc' = "log_analysis_agent"

\* a REFLECT step that returns adds one to its loop's counter and hands over
\* to the adapter of its loop; no other step changes a counter
OnlyReflectCounts ==
    /\ IF pc = "vector_reflection" /\ pc' \in Nodes
       THEN /\ state'.vector_iteration_count = state.vector_iteration_count + 1
            /\ pc' = "vector_agent"
       ELSE state'.vector_iteration_count = state.vector_iteration_count
    /\ IF pc = "cypher_reflection" /\ pc' \in Nodes
       THEN /\ state'.cypher_iteration_count = state.cypher_iteration_count + 1
            /\ pc' = "cypher_agent"
       ELSE state'.cypher_iteration_count = state.cypher_iteration_count

ReflectStep ==
    /\ ReflectOnlyAfterInsufficientReview
    /\ InsufficientAtCeilingExhausts
    /\ OnlyReflectCounts

\* C21: REFLECT is entered only right after a review of its loop with
\* verdict insufficient and the counter below max_iterations; a REFLECT step
\* adds exactly one to its loop's counter and is followed by another ATTEMPT
\* of the same adapter; no other step changes the counter; an insufficient
\* review with the counter at max_iterations goes to EXHAUSTED.
C21_ReflectCountsAndRetries ==
    [][ReflectStep]_vars

\* the Cypher loop about to make its third attempt after two reflections
C21_Witness ==
    /\ pc = "cypher_agent"
    /\ ran["cypher_reflection"] = 2
    /\ state.cypher_iteration_count = 3
    /\ state.cypher_answer_sufficient = PyFalse

\* attempts made so far by each adapter
vector_attempts ==
    ran["vector_agent"]

cypher_attempts ==
    ran["cypher_agent"]

\* C22: in every state of a log-branch request the attempts an adapter has
\* made equal its loop's counter while the cycle of that attempt runs (the
\* counter is the ordinal of the attempt; with the next attempt still to be
\* made it is one ahead), and the attempts of each adapter in one request
\* are at least 1, once its loop is left, and at most max_iterations.
C22_CounterIsAttemptOrdinal ==
    state.is_log_question = PyTrue =>
        /\ pc \in {"review_vector_answer", "vector_reflection"} =>
               vector_attempts = state.vector_iteration_count
        /\ pc = "vector_agent" =>
               vector_attempts = state.vector_iteration_count - 1
        /\ pc \in {"review_cypher_answer", "cypher_reflection"} =>
               cypher_attempts = state.cypher_iteration_count
        /\ pc = "cypher_agent" =>
               cypher_attempts = state.cypher_iteration_count - 1
        /\ vector_attempts <= state.max_iterations
        /\ cypher_attempts <= state.max_iterations
        /\ VectorLoopLeft =>
               /\ vector_attempts >= 1
               /\ vector_attempts = state.vector_iteration_count
        /\ CypherLoopLeft =>
               /\ cypher_attempts >= 1
               /\ cypher_attempts = state.cypher_iteration_count

\* the third Cypher attempt under review, after a vector loop of two
C22_Witness ==
    /\ pc = "review_cypher_answer"
    /\ cypher_attempts = 3
    /\ state.cypher_iteration_count = 3
    /\ vector_attempts = 2
    /\ state.vector_iteration_count = 2

----------------------------------------------------------------------------
(* Escalation *)

\* the escalation judgment of a log-branch request decided to escalate
Escalated ==
    /\ state.is_log_question = PyTrue
    /\ state.is_cskg_required = PyTrue

NotEscalated ==
    /\ state.is_log_question = PyTrue
    /\ state.is_cskg_required = PyFalse

\* C23: on the log branch, when the escalation judgment decides to escalate,
\* the MCP adapter is queried exactly once, with no review and no retry,
\* and the question it is asked is the one the escalation judgment
\* generated, for every generated question, an empty one included.
C23_EscalationAsksGeneratedQuestion ==
    Escalated =>
        /\ ran["mcp_rdf_agent"] <= 1
        /\ pc = "mcp_rdf_agent" <=> ran["mcp_rdf_agent"] = 0
        /\ ran["mcp_rdf_agent"] = 1 => pc \notin Nodes \ {"synthesizer"}
        /\ called["run_mcp_agent"] # Absent =>
               called["run_mcp_agent"] = state.generated_question_for_rdf

\* C24: on the log branch, when the escalation judgment decides not to
\* escalate, the MCP adapter is never invoked in the request, the knowledge
\* evidence and the escalation question stay absent, and the step after the
\* judgment is the synthesizer.
C24_NoEscalationSkipsKnowledge ==
    NotEscalated =>
        /\ ran["mcp_rdf_agent"] = 0
        /\ called["run_mcp_agent"] = Absent
        /\ state.mcp_rdf_context = Absent
        /\ state.generated_question_for_rdf = Absent
        /\ ran["synthesizer"] = 0 => pc \in {"synthesizer", RECURSION_ERROR}
        /\ "run_mcp_agent" \notin found

\* a request that was not escalated and ended with a report
C24_Witness ==
    /\ NotEscalated
    /\ ran["synthesizer"] = 1
    /\ ran["mcp_rdf_agent"] = 0
    /\ state.answer = "report"
    /\ pc = END

----------------------------------------------------------------------------
(* Order of the steps *)

\* the loops as their last review left them: ACCEPT, or EXHAUSTED
VectorLoopTerminal ==
    /\ ran["review_vector_answer"] >= 1
    /\ \/ state.vector_answer_sufficient = PyTrue
       \/ /\ state.vector_answer_sufficient = PyFalse
          /\ state.vector_iteration_count >= state.max_iterations

CypherLoopTerminal ==
    /\ ran["review_cypher_answer"] >= 1
    /\ \/ state.cypher_answer_sufficient = PyTrue
       \/ /\ state.cypher_answer_sufficient = PyFalse
          /\ state.cypher_iteration_count >= state.max_iterations

\* C25: in a log-branch request the steps are ordered: a Cypher attempt is
\* made, or due, only with the vector loop at ACCEPT or EXHAUSTED, and no
\* vector step follows it; the escalation judgment runs only with the
\* Cypher loop at ACCEPT or EXHAUSTED; the synthesizer runs only after the
\* escalation decision and, if escalated, after the MCP call.
C25_LogBranchStepsOrdered ==
    state.is_log_question = PyTrue =>
        /\ (pc \in CypherLoopNodes \/ cypher_attempts > 0) =>
               /\ VectorLoopTerminal
               /\ pc \notin VectorLoopNodes
        /\ (pc = "log_analysis_agent" \/ ran["log_analysis_agent"] > 0) =>
               /\ VectorLoopTerminal
               /\ CypherLoopTerminal
               /\ pc \notin VectorLoopNodes \cup CypherLoopNodes
        /\ (pc = "mcp_rdf_agent" \/ ran["mcp_rdf_agent"] > 0) =>
               /\ ran["log_analysis_agent"] = 1
               /\ Escalated
        /\ (pc = "synthesizer" \/ ran["synthesizer"] > 0) =>
               /\ ran["log_analysis_agent"] = 1
               /\ state.is_cskg_required \in {PyTrue, PyFalse}
               /\ Escalated => ran["mcp_rdf_agent"] = 1
               /\ Escalated => state.mcp_rdf_context # Absent

\* an escalated request at its end, with both loops exhausted before
C25_Witness ==
    /\ Escalated
    /\ pc = END
    /\ ran["synthesizer"] = 1
    /\ ran["mcp_rdf_agent"] = 1
    /\ ran["vector_reflection"] = 2
    /\ ran["cypher_reflection"] = 2

----------------------------------------------------------------------------
(* The gate, the router and the synthesizer run once *)

\* a flag that is written is not written again with another value
FlagsKeepTheirValue ==
    /\ state.is_relevant # Absent => state'.is_relevant = state.is_relevant
    /\ state.is_log_question # Absent =>
           state'.is_log_question = state.is_log_question

\* no step leads to the gate, and only the gate leads to the router
NoWayBack ==
    /\ pc' # pc => pc' # "guardrails"
    /\ (pc' # pc /\ pc' = "log_or_cyber_router") => pc = "guardrails"

C26_GateState ==
    /\ ran["guardrails"] <= 1
    /\ pc = "guardrails" <=> steps = 0
    /\ steps >= 1 => ran["guardrails"] = 1
    /\ state.is_relevant # Absent => ran["guardrails"] = 1
    /\ (ran["guardrails"] = 1 /\ pc # RAISED) => state.is_relevant # Absent

C26_GateSteps ==
    [][FlagsKeepTheirValue /\ NoWayBack]_vars

\* C26: the Relevance Gate judgment is made exactly once per request, as
\* its first step; is_relevant is written once and never changes; no later
\* step leads back to the gate.
C26_GateRunsOnceFirst ==
    /\ []C26_GateState
    /\ C26_GateSteps

\* a request that went through both loops with reflections and ended
C26_Witness ==
    /\ pc = END
    /\ ran["guardrails"] = 1
    /\ state.is_relevant = PyTrue
    /\ ran["vector_reflection"] > 0
    /\ ran["cypher_reflection"] > 0
    /\ steps > 10

C27_RouterState ==
    /\ ran["log_or_cyber_router"] <= 1
    /\ ran["log_or_cyber_router"] = 1 => state.is_relevant = PyTrue
    /\ state.is_relevant = PyTrue =>
           (pc = "log_or_cyber_router" <=> ran["log_or_cyber_router"] = 0)
    /\ state.is_relevant # PyTrue =>
           /\ ran["log_or_cyber_router"] = 0
           /\ pc # "log_or_cyber_router" \/ steps = 0
    /\ state.is_log_question # Absent =>
           /\ ran["log_or_cyber_router"] = 1
           /\ state.is_relevant = PyTrue
    /\ (ran["log_or_cyber_router"] = 1 /\ pc # RAISED) =>
           state.is_log_question \in {PyTrue, PyFalse}

C27_RouterSteps ==
    [][FlagsKeepTheirValue]_vars

\* C27: the Domain Router runs if and only if the gate classified the
\* question as relevant, and then exactly once; is_log_question is written
\* once, only in a relevant request, and keeps its value in every later
\* state.
C27_RouterRunsOnceIfRelevant ==
    /\ []C27_RouterState
    /\ C27_RouterSteps

\* a log-branch request at its end, routed once
C27_Witness ==
    /\ pc = END
    /\ ran["log_or_cyber_router"] = 1
    /\ state.is_log_question = PyTrue
    /\ ran["log_analysis_agent"] = 1

\* a request of a relevant question that came to END
RelevantRequestEnded ==
    /\ state.is_relevant = PyTrue
    /\ pc = END

C28_SynthesizerState ==
    /\ ran["synthesizer"] <= 1
    /\ ran["synthesizer"] = 1 => pc \in {END, RAISED}
    /\ RelevantRequestEnded => ran["synthesizer"] = 1
    /\ (pc = END /\ ran["synthesizer"] = 1) => state.is_relevant = PyTrue

\* the synthesizer is the only node a relevant request leaves to END, and
\* no step follows its execution
SynthesizerIsLast ==
    /\ pc = "synthesizer" => pc' \in {END, RAISED, RECURSION_ERROR}
    /\ (pc' = END /\ state.is_relevant = PyTrue) => pc = "synthesizer"
    /\ ran["synthesizer"] = 1 => UNCHANGED vars

C28_SynthesizerSteps ==
    [][SynthesizerIsLast]_vars

\* C28: for a relevant question the synthesizer executes exactly once, as
\* the last step before END, on both branches and with or without
\* escalation; it is never entered again and no step executes after it.
C28_SynthesizerRunsOnceLast ==
    /\ []C28_SynthesizerState
    /\ C28_SynthesizerSteps

\* a log-branch request that was not escalated, ended by the synthesizer
C28_Witness ==
    /\ RelevantRequestEnded
    /\ NotEscalated
    /\ ran["synthesizer"] = 1
    /\ ran["mcp_rdf_agent"] = 0
    /\ called["synthesis_chain"] # Absent

----------------------------------------------------------------------------
(* The working question *)

NoReflectionYet ==
    /\ ran["vector_reflection"] = 0
    /\ ran["cypher_reflection"] = 0

\* only the two REFLECT steps change the working question
OnlyReflectRewrites ==
    pc \notin {"vector_reflection", "cypher_reflection"} =>
        state'.question = state.question

C29_QuestionBeforeReflect ==
    NoReflectionYet => state.question = state.original_question

C29_OnlyReflectRewrites ==
    [][OnlyReflectRewrites]_vars

\* without a reflection the two loop adapters are asked the original
\* question
C29_LoopAdaptersAskOriginal ==
    NoReflectionYet =>
        \A a \in {"query_vector_search", "query_cypher"} :
            called[a] \in {Absent, state.original_question}

\* without a reflection the MCP adapter is asked the original question,
\* or, in an escalated request, the question the escalation generated
C29_KnowledgeAsksOriginalOrGenerated ==
    (NoReflectionYet /\ called["run_mcp_agent"] # Absent) =>
        called["run_mcp_agent"] =
            IF Escalated /\ Truthy(state.generated_question_for_rdf)
            THEN state.generated_question_for_rdf
            ELSE state.original_question

\* without a reflection every adapter is asked the original question
C29_EveryAdapterAsksOriginal ==
    NoReflectionYet =>
        \A a \in Adapters : called[a] \in {Absent, state.original_question}

\* C29 (as amended): the working question equals original_question in every
\* state before the first REFLECT step and only REFLECT steps change it, so
\* in a request without reflection the vector and the Cypher adapter are
\* asked the original question; the MCP adapter is asked the original
\* question too, except in an escalated request with a generated question,
\* where it is asked that question.
C29_WorkingQuestionOnlyReflected ==
    /\ []C29_QuestionBeforeReflect
    /\ C29_OnlyReflectRewrites
    /\ []C29_LoopAdaptersAskOriginal
    /\ []C29_KnowledgeAsksOriginalOrGenerated

\* C29 (as stated): the same, with every adapter, the MCP adapter included,
\* asked the original question in a request without reflection.
C29_WorkingQuestionAsStated ==
    /\ []C29_QuestionBeforeReflect
    /\ C29_OnlyReflectRewrites
    /\ []C29_EveryAdapterAsksOriginal

\* an escalated request without any reflection asking the MCP adapter the
\* generated question
C29_Witness ==
    /\ NoReflectionYet
    /\ Escalated
    /\ called["run_mcp_agent"] = "g1"
    /\ state.question = state.original_question
    /\ cypher_attempts = 1

----------------------------------------------------------------------------
(* Accumulation of the session state *)

Holds(v) == v \notin {Absent, None}

\* the fields of the session that hold integers
CounterFields ==
    {"vector_iteration_count", "cypher_iteration_count", "max_iterations"}

\* no step takes a value away from a field that holds one (a counter
\* always holds one, and is not taken back)
StepOnlyAccumulates ==
    \A f \in DOMAIN state :
        IF f \in CounterFields
        THEN state'[f] >= state[f]
        ELSE Holds(state[f]) => Holds(state'[f])

\* C30: once a session field (evidence slot, decision flag, counter,
\* question) holds a non-absent value no later step resets it to absent; in
\* particular an evidence slot written by an ATTEMPT is not cleared by the
\* REVIEW that follows it.
C30_StateOnlyAccumulates ==
    [][StepOnlyAccumulates]_vars

----------------------------------------------------------------------------
(* Partial updates and item assignments *)

\* the keys of the update review_vector_node returns (lines 73, 78)
review_vector_node_update_keys(s) ==
    IF review_vector_short_circuit(s.log_vector_context)
    THEN {"vector_answer_sufficient", "log_vector_context"}
    ELSE {"vector_answer_sufficient"}

\* the keys of the update review_cypher_node returns (lines 138, 143)
review_cypher_node_update_keys(s) ==
    IF review_cypher_short_circuit(s.log_cypher_context)
    THEN {"cypher_answer_sufficient", "log_cypher_context"}
    ELSE {"cypher_answer_sufficient"}

\* a review step, its routing decision included, changes no field outside
\* the update the node returns
ReviewStepOnlyUpdates ==
    /\ pc = "review_vector_answer" =>
           \A f \in DOMAIN state \ review_vector_node_update_keys(state) :
               state'[f] = state[f]
    /\ pc = "review_cypher_answer" =>
           \A f \in DOMAIN state \ review_cypher_node_update_keys(state) :
               state'[f] = state[f]

\* C31: every change of the session is made through the partial update a
\* step returns: no node and no routing decision modifies the session in
\* place, and routing decisions leave every session field unchanged.
C31_NoInPlaceChange ==
    [][ReviewStepOnlyUpdates]_vars

----------------------------------------------------------------------------
(* The inputs of the synthesis *)

\* what the synthesis is to be given for a source: the placeholder for an
\* absent or empty slot, the evidence otherwise
evidence_or(placeholder, v) ==
    IF Truthy(v) THEN Str(v) ELSE placeholder

SynthesisInvoked ==
    called["synthesis_chain"] # Absent

C32_SourcesOrPlaceholders ==
    SynthesisInvoked =>
        /\ synthesis_input(state).log_cypher_context =
               evidence_or(NotApplicable, state.log_cypher_context)
        /\ synthesis_input(state).log_vector_context =
               evidence_or(NotApplicable, state.log_vector_context)
        /\ synthesis_input(state).mcp_rdf_context =
               evidence_or(NoData, state.mcp_rdf_context)

C32_GeneralBranchPlaceholders ==
    (SynthesisInvoked /\ state.is_log_question = PyFalse) =>
        /\ synthesis_input(state).log_cypher_context = NotApplicable
        /\ synthesis_input(state).log_vector_context = NotApplicable

\* C32: when the synthesizer invokes the Judgment Service, every source
\* whose evidence slot is absent or empty is passed as its fixed placeholder
\* (NotApplicable for graph and vector, NoData for knowledge) and every
\* source with evidence is passed that evidence; on the general branch both
\* the graph and the vector input are the placeholder.
C32_SynthesisInputs ==
    /\ C32_SourcesOrPlaceholders
    /\ C32_GeneralBranchPlaceholders

----------------------------------------------------------------------------
(* The MCP client of src/src/agents/mcp_rdf_agent.py: the module global    *)
(* _mcp_client and the coroutines of run_mcp_agent that share it in one     *)
(* process.  In this specification state holds the module's globals, pc     *)
(* the position of each run_mcp_agent coroutine, steps the calls started,   *)
(* called the client each call in progress obtained and returned the text   *)
(* each call returned last.  A coroutine gives way to another only at an    *)
(* await, and get_mcp_client has none.                                      *)

\* the coroutines of run_mcp_agent that can be in flight together
MaxCallers == 3

\* the calls of run_mcp_agent one process makes
MaxMcpCalls == 5

Callers ==
    1..MaxCallers

\* the nth MCPClient object the process constructs
MCPClient(n) ==
    "<MCPClient " \o ToString(n) \o ">"

\* get_mcp_client always constructing, without a look at the global
get_mcp_client_not_caching(globals, config_exists, loads) ==
    IF ~config_exists \/ ~loads
    THEN [globals |-> globals, client |-> Raises]
    ELSE LET made == MCPClient(globals.constructed + 1) IN
         [globals |-> [_mcp_client |-> made,
                       constructed |-> globals.constructed + 1],
          client |-> made]

\* get_mcp_client(): the globals after the call and the client returned, or
\* Raises for the FileNotFoundError of line 21 and for a failure of
\* MCPClient.from_config_file
get_mcp_client(globals, config_exists, loads) ==
    IF globals._mcp_client = None
    THEN IF ~config_exists \/ ~loads
         THEN [globals |-> globals, client |-> Raises]
         ELSE LET made == MCPClient(globals.constructed + 1) IN
              [globals |-> [_mcp_client |-> made,
                            constructed |-> globals.constructed + 1],
               client |-> made]
    ELSE [globals |-> globals, client |-> globals._mcp_client]

McpClientInit ==
    /\ state = [_mcp_client |-> None, constructed |-> 0]
    /\ pc = [c \in Callers |-> "idle"]
    /\ steps = 0
    /\ called = [c \in Callers |-> Absent]
    /\ returned = [c \in Callers |-> Absent]
    /\ keeps_inplace = FALSE
    /\ config = [recursion_limit |-> recursion_limit]
    /\ ran = [n \in Nodes |-> 0]
    /\ entry_question = Absent
    /\ found = {}

\* run_mcp_agent up to its await: get_mcp_client and the MCPAgent built on
\* the client (lines 44-52), or the except branch (lines 55-57)
run_mcp_agent_starts(c) ==
    /\ pc[c] = "idle"
    /\ steps < MaxMcpCalls
    /\ steps' = steps + 1
    /\ \E config_exists \in BOOLEAN, loads \in BOOLEAN :
         LET got == get_mcp_client(state, config_exists, loads) IN
         /\ state' = got.globals
         /\ IF got.client = Raises
            THEN /\ pc' = pc
                 /\ called' = [called EXCEPT ![c] = Absent]
                 /\ returned' = [returned EXCEPT ![c] = McpAgentError]
            ELSE /\ pc' = [pc EXCEPT ![c] = "agent.run"]
                 /\ called' = [called EXCEPT ![c] = got.client]
                 /\ UNCHANGED returned
    /\ UNCHANGED <<keeps_inplace, config, ran, entry_question, found>>

\* run_mcp_agent from its await on: agent.run returns or raises (lines
\* 53-57)
run_mcp_agent_returns(c) ==
    /\ pc[c] = "agent.run"
    /\ pc' = [pc EXCEPT ![c] = "idle"]
    /\ \E result \in McpResults :
         returned' = [returned EXCEPT ![c] = result]
    /\ called' = [called EXCEPT ![c] = Absent]
    /\ UNCHANGED <<state, steps, keeps_inplace, config, ran, entry_question,
                   found>>

McpClientNext ==
    \E c \in Callers :
        \/ run_mcp_agent_starts(c)
        \/ run_mcp_agent_returns(c)

McpClientSpec ==
    McpClientInit /\ [][McpClientNext]_vars

C33_ConstructedAtMostOnce ==
    state.constructed <= 1

\* every call in progress holds the one instance, which is the global
C33_SameInstance ==
    \A c \in Callers :
        called[c] # Absent =>
            /\ called[c] = MCPClient(1)
            /\ called[c] = state._mcp_client

\* the global, once set, is not set again
ClientKept ==
    state._mcp_client # None => state'._mcp_client = state._mcp_client

C33_ClientKept ==
    [][ClientKept]_vars

\* C33: across any number of run_mcp_agent calls in one process, calls of
\* concurrently running requests included, get_mcp_client constructs the
\* MCPClient at most once and every later call returns that same instance.
C33_ClientConstructedOnce ==
    /\ []C33_ConstructedAtMostOnce
    /\ []C33_SameInstance
    /\ C33_ClientKept

\* two calls in flight together on the one instance, after a call that
\* failed before the client existed and with a fourth call started
C33_Witness ==
    /\ state.constructed = 1
    /\ called[1] = MCPClient(1)
    /\ called[2] = MCPClient(1)
    /\ returned[3] = McpAgentError
    /\ steps >= 4

----------------------------------------------------------------------------
(* The MCP server of src/mcp-cskg-rdf/src/mcp-cskg-rdf/server.py: the       *)
(* lifespan context the tools share, and the two tools that write to it.    *)
(* In this specification state holds the lifespan context (max_tokens and   *)
(* metrics; time is counted in ticks), steps the tool calls made, called    *)
(* the last tool call and returned the text it returned.                    *)

\* the tool calls one server run receives
MaxToolCalls == 4

\* the ticks one graph.query can take
MaxElapsed == 1

\* the tokens argument of set_max_tokens
TokenInputs ==
    {-1, 0, 1, 5000}

MaxTokensError ==
    "Error: MAX_TOKENS must be positive."

SparqlError ==
    "Error executing SPARQL query: e"

\* format_sparql_results(results, include_description), or the exception of
\* reading the results (row.asdict() of a result that has no rows of
\* bindings, a query evaluated only while its rows are read)
FormatResults ==
    {"No results found.", "name: T1059", Raises}

\* graph.query(query): a result, or the exception of line 192
QueryOutcomes ==
    {"<Result>", Raises}

\* set_max_tokens with the test of line 170 letting zero through
set_max_tokens_accepting_zero(ctx, tokens) ==
    IF tokens < 0
    THEN [ctx |-> ctx, result |-> MaxTokensError]
    ELSE [ctx |-> [ctx EXCEPT !.max_tokens = tokens],
          result |-> "MAX_TOKENS set to " \o ToString(tokens)]

\* set_max_tokens(tokens, ctx): the lifespan context after the call and the
\* text returned
set_max_tokens(ctx, tokens) ==
    IF tokens <= 0
    THEN [ctx |-> ctx, result |-> MaxTokensError]
    ELSE [ctx |-> [ctx EXCEPT !.max_tokens = tokens],
          result |-> "MAX_TOKENS set to " \o ToString(tokens)]

\* execute_sparql_query(query, ctx): the lifespan context after the call
\* and the text returned; the metrics are written between graph.query and
\* format_sparql_results, all inside the one try block (lines 191-199)
execute_sparql_query(ctx, results, elapsed, formatted) ==
    IF results = Raises
    THEN [ctx |-> ctx, result |-> SparqlError]
    ELSE LET counted ==
                 [ctx EXCEPT !.metrics.queries = @ + 1,
                             !.metrics.total_time = @ + elapsed] IN
         IF formatted = Raises
         THEN [ctx |-> counted, result |-> SparqlError]
         ELSE [ctx |-> counted, result |-> formatted]

\* the lifespan context attack_triplestore_lifespan yields (lines 78-79,
\* 106-113)
ServerInit ==
    /\ state = [max_tokens |-> 10000,
                metrics |-> [queries |-> 0, total_time |-> 0]]
    /\ pc = "serving"
    /\ steps = 0
    /\ called = [tool |-> Absent, arg |-> Absent]
    /\ returned = Absent
    /\ keeps_inplace = FALSE
    /\ config = [recursion_limit |-> recursion_limit]
    /\ ran = [n \in Nodes |-> 0]
    /\ entry_question = Absent
    /\ found = {}

set_max_tokens_tool ==
    /\ steps < MaxToolCalls
    /\ steps' = steps + 1
    /\ \E tokens \in TokenInputs :
         LET done == set_max_tokens(state, tokens) IN
         /\ called' = [tool |-> "set_max_tokens", arg |-> tokens]
         /\ state' = done.ctx
         /\ returned' = done.result
    /\ UNCHANGED <<pc, keeps_inplace, config, ran, entry_question, found>>

execute_sparql_query_tool ==
    /\ steps < MaxToolCalls
    /\ steps' = steps + 1
    /\ \E results \in QueryOutcomes, elapsed \in 0..MaxElapsed,
          formatted \in FormatResults :
         LET done == execute_sparql_query(state, results, elapsed, formatted) IN
         /\ called' = [tool |-> "execute_sparql_query", arg |-> results]
         /\ state' = done.ctx
         /\ returned' = done.result
    /\ UNCHANGED <<pc, keeps_inplace, config, ran, entry_question, found>>

ServerNext ==
    \/ set_max_tokens_tool
    \/ execute_sparql_query_tool

ServerSpec ==
    ServerInit /\ [][ServerNext]_vars

\* the step is a call of tool
ToolStep(tool) ==
    /\ steps' = steps + 1
    /\ called'.tool = tool

SetMaxTokensChecksSign ==
    ToolStep("set_max_tokens") =>
        IF called'.arg <= 0
        THEN /\ returned' = MaxTokensError
             /\ state'.max_tokens = state.max_tokens
        ELSE state'.max_tokens = called'.arg

C34_SetMaxTokensChecksSign ==
    [][SetMaxTokensChecksSign]_vars

C34_MaxTokensPositive ==
    state.max_tokens > 0

\* C34: set_max_tokens with tokens <= 0 returns an error string and leaves
\* max_tokens unchanged, and with tokens > 0 sets max_tokens to that value;
\* hence max_tokens (initially 10000) is positive in every reachable state
\* of the server, after any sequence of tool calls.
C34_MaxTokensStaysPositive ==
    /\ C34_SetMaxTokensChecksSign
    /\ []C34_MaxTokensPositive

\* max_tokens set by one call and kept by a later call that was refused
C34_Witness ==
    /\ state.max_tokens = 5000
    /\ called = [tool |-> "set_max_tokens", arg |-> 0]
    /\ returned = MaxTokensError
    /\ state.metrics.queries > 0

----------------------------------------------------------------------------
(* The query metrics of the MCP server *)

\* a call of execute_sparql_query that returns results counts one query, a
\* call that returns the error text changes no metric
QueryCounted ==
    ToolStep("execute_sparql_query") =>
        IF returned' = SparqlError
        THEN state'.metrics = state.metrics
        ELSE state'.metrics.queries = state.metrics.queries + 1

QueriesNeverDecrease ==
    state'.metrics.queries >= state.metrics.queries

C38_QueryCounted ==
    [][QueryCounted]_vars

C38_QueriesNeverDecrease ==
    [][QueriesNeverDecrease]_vars

\* C38: execute_sparql_query increases metrics.queries by exactly one on
\* each query that succeeds and, when the query raises, returns an error
\* string instead of raising and leaves metrics.queries and
\* metrics.total_time unchanged; metrics.queries never decreases.
C38_MetricsCountSuccesses ==
    /\ C38_QueryCounted
    /\ C38_QueriesNeverDecrease

----------------------------------------------------------------------------
(* The number of steps of a request *)

\* the most node executions of a request with max_iterations attempts per
\* loop: the gate, the router, 3 * max_iterations - 1 steps in each loop,
\* the escalation judgment, the MCP adapter and the synthesizer
MostSteps(max_iterations) ==
    6 * max_iterations + 3

\* the request was started with the session of run.py
DefaultSession ==
    state.max_iterations = DefaultMaxIterations

C35_StepsBounded ==
    /\ steps <= MostSteps(state.max_iterations)
    /\ steps = ran["guardrails"] + ran["log_or_cyber_router"]
               + ran["vector_agent"] + ran["review_vector_answer"]
               + ran["vector_reflection"] + ran["cypher_agent"]
               + ran["review_cypher_answer"] + ran["cypher_reflection"]
               + ran["log_analysis_agent"] + ran["mcp_rdf_agent"]
               + ran["synthesizer"]

C35_DefaultsWithinBudget ==
    (DefaultConfig /\ DefaultSession) =>
        /\ steps <= 21
        /\ steps < config.recursion_limit
        /\ pc # RECURSION_ERROR

\* with the defaults a relevant question that is over, and was not ended by
\* an exception of the Judgment Service, has run the synthesizer
C35_RelevantReachesSynthesizer ==
    (DefaultConfig /\ DefaultSession /\ state.is_relevant = PyTrue
        /\ pc \notin Nodes /\ pc # RAISED) =>
            /\ pc = END
            /\ ran["synthesizer"] = 1

\* C35: with the defaults of run.py (max_iterations = 3, recursion_limit =
\* 30) no request executes more than 21 node steps on any path, so the step
\* budget is never exceeded and every relevant question reaches the
\* synthesizer; in general a request executes at most
\* 6 * max_iterations + 3 node steps.
C35_StepsWithinBudget ==
    /\ C35_StepsBounded
    /\ C35_DefaultsWithinBudget
    /\ C35_RelevantReachesSynthesizer

\* the longest request of the defaults: both loops exhausted, escalated
C35_Witness ==
    /\ DefaultConfig
    /\ DefaultSession
    /\ pc = END
    /\ steps = 21
    /\ ran["vector_reflection"] = 2
    /\ ran["cypher_reflection"] = 2
    /\ ran["mcp_rdf_agent"] = 1

----------------------------------------------------------------------------
(* Mandatory lookups *)

\* the keys class AgentState declares
AgentStateFields ==
    {"question", "original_question", "is_relevant", "is_log_question",
     "vector_context", "cypher_context", "latest_vector_context",
     "latest_cypher_context", "generated_question_for_rdf", "mcp_rdf_context",
     "answer", "cypher_query", "error", "messages", "cypher_iteration_count",
     "vector_iteration_count", "vector_answer_sufficient",
     "cypher_answer_sufficient", "max_iterations"}

\* the keys node reads as state[key] when it runs on session s
mandatory_lookups(s, node) ==
    CASE node = "guardrails" -> {"question"}
      [] node = "log_or_cyber_router" -> {"question"}
      [] node = "vector_agent" -> {"question"}
      [] node = "review_vector_answer" ->
           {"original_question", "log_vector_context"}
      [] node = "vector_reflection" ->
           {"original_question", "log_vector_context", "vector_iteration_count"}
      [] node = "cypher_agent" -> {"question"}
      [] node = "review_cypher_answer" ->
           {"original_question", "log_cypher_context"}
      [] node = "cypher_reflection" ->
           {"original_question", "cypher_query", "cypher_iteration_count"}
      [] node = "log_analysis_agent" -> {"original_question"}
      [] node = "mcp_rdf_agent" ->
           IF Truthy(s.is_log_question) /\ Truthy(s.generated_question_for_rdf)
           THEN {"generated_question_for_rdf"}
           ELSE {"original_question"}
      [] node = "synthesizer" ->
           IF nothing_found(s) THEN {} ELSE {"original_question"}
      [] OTHER -> {}

\* what the node about to run reads has been written
C36_LookupsAreSet ==
    \A f \in mandatory_lookups(state, pc) \ CounterFields : state[f] # Absent

\* what the node about to run reads is a key of AgentState
C36_LookupsAreDeclared ==
    mandatory_lookups(state, pc) \subseteq AgentStateFields

\* C36: on every path, each session field a step reads by mandatory lookup
\* has been written by the initial state or by an earlier step of the same
\* request and is a field the session state (AgentState) carries; no step
\* reads a field that is unset.
C36_LookupsSetAndDeclared ==
    /\ C36_LookupsAreSet
    /\ C36_LookupsAreDeclared

----------------------------------------------------------------------------
(* The refusal path *)

\* the gate found the question irrelevant and the request ended
Refused ==
    /\ pc = END
    /\ state.is_relevant = PyFalse

\* the fields the refusal writes
RefusalFields ==
    {"is_relevant", "answer"}

\* C37: on the refusal path (gate returns irrelevant) the only session
\* fields written are is_relevant and answer: the working question, both
\* retry counters, max_iterations and every evidence, high-water-mark and
\* escalation field are in the final state as in the initial state.
C37_RefusalWritesTwoFields ==
    Refused =>
        /\ steps = 1
        /\ state.answer = Refusal
        /\ \E m \in 1..MaxMaxIterations :
             \A f \in DOMAIN state \ RefusalFields :
                 state[f] = initial_state(m)[f]

\* a refused request, ended after the gate alone
C37_Witness ==
    /\ Refused
    /\ ran["guardrails"] = 1
    /\ called["guardrails_chain"] = OriginalQuestion
    /\ state.answer = Refusal
    /\ state.max_iterations = DefaultMaxIterations

====
